---- MODULE Spec2Model ----
(***************************************************************************)
(* Model of pkg/cloud/graph.go: the AzureClient operations that create,    *)
(* look up and delete applications, service principals and federated       *)
(* identity credentials in the directory service, and the two filter       *)
(* builders used by the lookups.                                           *)
(*                                                                         *)
(* A Go string is a sequence of one-character strings; "'" is the quote.   *)
(***************************************************************************)
EXTENDS Integers, Sequences, FiniteSets, TLC

\* ------------------------------------------------------------------ bounds
\* Longest value handed to the filter builders in SpecFilter.
MaxLen == 3
\* Number of objects the directory service creates before it refuses more.
MaxObjects == 3
\* Service principals and credentials are asked for the applications with
\* objectID 1..MaxTargets.
MaxTargets == 1

\* ------------------------------------------------------------------ strings
Quote == "'"
Chars == {"a", "b", Quote}

RECURSIVE SeqsUpTo(_, _)
SeqsUpTo(S, n) ==
    IF n = 0 THEN {<<>>}
    ELSE LET shorter == SeqsUpTo(S, n - 1)
         IN  shorter \cup {Append(s, x) : s \in shorter, x \in S}

Values == SeqsUpTo(Chars, MaxLen)

\* ------------------------------------------------------------------ filter builder
\* fmt.Sprintf("displayName eq '%s'", displayName): the format's text before
\* the verb, the value as it is, the format's text after the verb.
getDisplayNameFilter(displayName) ==
    <<"displayName eq ", Quote>> \o displayName \o <<Quote>>

\* fmt.Sprintf("subject eq '%s'", subject)
getSubjectFilter(subject) ==
    <<"subject eq ", Quote>> \o subject \o <<Quote>>

\* The service's reading of a string literal that starts at position i of f,
\* just after the opening quote: a doubled quote is one quote character of the
\* value, a single quote closes the literal.  The result is the value read and
\* the position after the closing quote, or ok = FALSE when the literal is
\* not closed.
RECURSIVE ReadLiteral(_, _, _)
ReadLiteral(f, i, acc) ==
    IF i > Len(f) THEN [ok |-> FALSE, value |-> acc, next |-> i]
    ELSE IF f[i] # Quote THEN ReadLiteral(f, i + 1, Append(acc, f[i]))
    ELSE IF i + 1 <= Len(f) /\ f[i + 1] = Quote
         THEN ReadLiteral(f, i + 2, Append(acc, Quote))
    ELSE [ok |-> TRUE, value |-> acc, next |-> i + 1]

\* The service's reading of a filter expression: one '<field> eq' comparison
\* against one string literal and nothing after it.
ParseFilter(f) ==
    IF Len(f) < 3 \/ f[1] \notin {"displayName eq ", "subject eq "} \/ f[2] # Quote
    THEN [ok |-> FALSE, field |-> "", value |-> <<>>]
    ELSE LET lit == ReadLiteral(f, 3, <<>>)
         IN  IF lit.ok /\ lit.next = Len(f) + 1
             THEN [ok |-> TRUE,
                   field |-> IF f[1] = "displayName eq " THEN "displayName" ELSE "subject",
                   value |-> lit.value]
             ELSE [ok |-> FALSE, field |-> "", value |-> <<>>]

\* ------------------------------------------------------------------ data model
Callers == {"c1", "c2"}
\* Display names and subjects: a plain one, a lone quote, two quotes.
Names == {<<"a">>, <<Quote>>, <<Quote, Quote>>}
Issuers == {"i1", "i2"}
TagSets == {<<>>, <<"t">>}
ObjectIDs == 1..MaxObjects
\* The applications that operations on service principals and credentials name.
Targets == 1..MaxTargets
\* The client id the service assigns with an application's objectID.
AppIDOf(objectID) == objectID + MaxObjects
AppIDs == {AppIDOf(i) : i \in Targets}

Nil == [kind |-> "nil"]
Application(objectID, displayName) ==
    [kind |-> "app", objectID |-> objectID, appID |-> AppIDOf(objectID),
     displayName |-> displayName]
ServicePrincipal(objectID, appID, displayName, tags) ==
    [kind |-> "sp", objectID |-> objectID, appID |-> appID,
     displayName |-> displayName, tags |-> tags]
FederatedCredential(objectID, app, issuer, subject) ==
    [kind |-> "fic", objectID |-> objectID, app |-> app,
     issuer |-> issuer, subject |-> subject]
\* What the SDK decodes when the response body holds none of the typed fields.
EmptyObject(kind) == [kind |-> kind, objectID |-> 0]

VARIABLES
    dir,    \* the directory service: apps, sps, fics in the order it returns them, nextID
    pc,     \* per caller: "idle", "inflight" (inside the transport call), "returned"
    inv,    \* per caller: the operation invoked and its arguments
    ctx,    \* per caller: the call context, "live" or "cancelled"
    wire,   \* per caller: what the transport call(s) of this invocation did and returned
    ret,    \* per caller: what the operation returned
    fresh,  \* the federated credential added by the latest completed call, if any
    prog,   \* per caller: the lookup-then-create sequence it is running, if any
    lock,   \* the callers' external lock: "none" (not used), "free" or its holder
    fin,    \* filter builder: the value handed in
    fout    \* filter builder: which builder ran and the filter it produced

vars == <<dir, pc, inv, ctx, wire, ret, fresh, prog, lock, fin, fout>>

EmptyDir == [apps |-> <<>>, sps |-> <<>>, fics |-> <<>>, nextID |-> 1]
NoInv == [op |-> "none"]
NoWire == [calls |-> 0, err |-> "nil", additionalData |-> "Clean", value |-> <<>>,
           added |-> {}, removed |-> {}]
NoRet == [obj |-> Nil, err |-> "none"]
NoAdd == [caller |-> "none"]
NoProg == [kind |-> "none"]
NoFilter == [builder |-> "none", filter |-> <<>>]

Remove(s, objectID) == SelectSeq(s, LAMBDA o : o.objectID # objectID)
Has(s, objectID) == \E i \in DOMAIN s : s[i].objectID = objectID

\* ------------------------------------------------------------------ directory service
\* What the service does with one request when it accepts or refuses it on its
\* own terms: the directory after it, whether it was accepted, the typed
\* payload of the response, and the objectIDs it added and removed.  A set,
\* for the service's uniqueness rule on issuer+subject is its own choice.
Refused(d) ==
    [dir |-> d, accepted |-> FALSE, value |-> <<>>, added |-> {}, removed |-> {}]
Accepted(d, value, added, removed) ==
    [dir |-> d, accepted |-> TRUE, value |-> value, added |-> added, removed |-> removed]

PostApplication(d, body) ==
    IF d.nextID > MaxObjects THEN {Refused(d)}
    ELSE LET app == Application(d.nextID, body.displayName)
         IN  {Accepted([d EXCEPT !.apps = Append(@, app), !.nextID = @ + 1],
                       <<app>>, {app.objectID}, {})}

PostServicePrincipal(d, body) ==
    IF d.nextID > MaxObjects \/ ~\E i \in DOMAIN d.apps : d.apps[i].appID = body.appID
    THEN {Refused(d)}
    ELSE LET app == d.apps[CHOOSE i \in DOMAIN d.apps : d.apps[i].appID = body.appID]
             sp == ServicePrincipal(d.nextID, body.appID, app.displayName, body.tags)
         IN  {Accepted([d EXCEPT !.sps = Append(@, sp), !.nextID = @ + 1],
                       <<sp>>, {sp.objectID}, {})}

PostFederatedCredential(d, objectID, body) ==
    IF d.nextID > MaxObjects \/ ~Has(d.apps, objectID) THEN {Refused(d)}
    ELSE LET fic == FederatedCredential(d.nextID, objectID, body.issuer, body.subject)
             created == Accepted([d EXCEPT !.fics = Append(@, fic), !.nextID = @ + 1],
                                 <<fic>>, {fic.objectID}, {})
         IN  IF \E i \in DOMAIN d.fics :
                    /\ d.fics[i].app = objectID
                    /\ d.fics[i].issuer = body.issuer
                    /\ d.fics[i].subject = body.subject
             THEN {created, Refused(d)}
             ELSE {created}

GetByDisplayName(d, objects, filter) ==
    LET f == ParseFilter(filter)
    IN  IF ~f.ok \/ f.field # "displayName" THEN {Refused(d)}
        ELSE {Accepted(d, SelectSeq(objects, LAMBDA o : o.displayName = f.value), {}, {})}

GetFederatedCredentials(d, objectID, filter) ==
    LET f == ParseFilter(filter)
    IN  IF ~f.ok \/ f.field # "subject" \/ ~Has(d.apps, objectID) THEN {Refused(d)}
        ELSE {Accepted(d, SelectSeq(d.fics, LAMBDA o : o.app = objectID /\ o.subject = f.value),
                       {}, {})}

DeleteObject(d, kind, objectID) ==
    IF kind = "app" /\ Has(d.apps, objectID)
    THEN {Accepted([d EXCEPT !.apps = Remove(@, objectID)], <<>>, {}, {objectID})}
    ELSE IF kind = "sp" /\ Has(d.sps, objectID)
    THEN {Accepted([d EXCEPT !.sps = Remove(@, objectID)], <<>>, {}, {objectID})}
    ELSE {Refused(d)}

DeleteNestedCredential(d, objectID, federatedCredentialID) ==
    IF /\ Has(d.apps, objectID)
       /\ \E i \in DOMAIN d.fics : /\ d.fics[i].objectID = federatedCredentialID
                                   /\ d.fics[i].app = objectID
    THEN {Accepted([d EXCEPT !.fics = Remove(@, federatedCredentialID)],
                   <<>>, {}, {federatedCredentialID})}
    ELSE {Refused(d)}

\* The request routed by method and resource path (the table of calls).
Serve(d, r) ==
    CASE r.method = "POST" /\ r.resource = "applications" -> PostApplication(d, r.body)
      [] r.method = "POST" /\ r.resource = "servicePrincipals" -> PostServicePrincipal(d, r.body)
      [] r.method = "POST" /\ r.resource = "federatedIdentityCredentials" ->
            PostFederatedCredential(d, r.objectID, r.body)
      [] r.method = "GET" /\ r.resource = "applications" -> GetByDisplayName(d, d.apps, r.filter)
      [] r.method = "GET" /\ r.resource = "servicePrincipals" -> GetByDisplayName(d, d.sps, r.filter)
      [] r.method = "GET" /\ r.resource = "federatedIdentityCredentials" ->
            GetFederatedCredentials(d, r.objectID, r.filter)
      [] r.method = "DELETE" /\ r.resource = "applications" -> DeleteObject(d, "app", r.objectID)
      [] r.method = "DELETE" /\ r.resource = "servicePrincipals" -> DeleteObject(d, "sp", r.objectID)
      [] r.method = "DELETE" /\ r.resource = "federatedIdentityCredentials" ->
            DeleteNestedCredential(d, r.objectID, r.federatedCredentialID)

\* The typed payload of a response whose body carries an error instead of the
\* object: for a POST the SDK still hands back an object, with no field set.
ErrorPayload(r) ==
    IF r.method # "POST" THEN {<<>>}
    ELSE {<<EmptyObject(CASE r.resource = "applications" -> "app"
                          [] r.resource = "servicePrincipals" -> "sp"
                          [] OTHER -> "fic")>>}

Outcome(d, err, additionalData, value, added, removed) ==
    [dir |-> d, err |-> err, additionalData |-> additionalData, value |-> value,
     added |-> added, removed |-> removed]

\* Every way one transport call can end, seen from the caller: the directory
\* after it, the SDK's error, and the decoded response (its additional-data
\* envelope and typed payload).  With the context cancelled the call is
\* aborted: the request may or may not have been carried out, and the SDK
\* returns the cancellation.
TransportOutcomes(d, r, context) ==
    LET served == Serve(d, r)
        done == {s \in served : s.accepted}
        failure == IF context = "cancelled" THEN "Canceled" ELSE "TransportError"
        lost == {Outcome(d, failure, "Clean", <<>>, {}, {})}
                  \cup {Outcome(s.dir, failure, "Clean", <<>>, s.added, s.removed) : s \in done}
    IN  IF context = "cancelled" THEN lost
        ELSE lost
             \cup {Outcome(s.dir, "nil", "Clean", s.value, s.added, s.removed) : s \in done}
             \cup {Outcome(d, "TransportError", "Clean", <<>>, {}, {}) : s \in served \ done}
             \cup {Outcome(d, "nil", a, v, {}, {}) :
                     a \in {"ServiceError", "Malformed"},
                     v \in ErrorPayload(r) \cup {s.value : s \in {x \in done : r.method = "GET"}}}

\* ------------------------------------------------------------------ error classifier
\* GetGraphError(additionalData) -> (graphErr, err): no error object in the
\* envelope, a well-formed one, or an envelope that cannot be decoded.
GetGraphError(additionalData) ==
    CASE additionalData = "Clean" -> [graphErr |-> "nil", err |-> "nil"]
      [] additionalData = "ServiceError" -> [graphErr |-> "GraphError", err |-> "nil"]
      [] additionalData = "Malformed" -> [graphErr |-> "nil", err |-> "DecodeError"]

\* ------------------------------------------------------------------ gateway operations
\* Each operation is the request its one transport call sends and the value it
\* returns for what that call gave back (t.err, t.additionalData, t.value).
Request(method, resource) ==
    [method |-> method, resource |-> resource, objectID |-> 0,
     federatedCredentialID |-> 0, filter |-> <<>>, body |-> Nil]

\* Variants of the error path: the call made again, the error renamed.
OnTransportErrorRetry(err) == [again |-> TRUE, err |-> err]
OnTransportErrorAsNotFound(err) == [again |-> FALSE, err |-> "NotFound"]

\* `if err != nil { return nil, err }`: the transport's error goes back as it
\* is and no further call is made.
OnTransportError(err) == [again |-> FALSE, err |-> err]

Failed(err) == [obj |-> Nil, err |-> err]
Returned(obj) == [obj |-> obj, err |-> "nil"]

\* The checks every operation with a decoded response makes before it looks
\* at the typed payload; "nil" when they all pass.
Classified(t) ==
    IF t.err # "nil" THEN OnTransportError(t.err).err
    ELSE LET g == GetGraphError(t.additionalData)
         IN  IF g.err # "nil" THEN g.err
             ELSE IF g.graphErr # "nil" THEN "DirectoryServiceError"
             ELSE "nil"

CreateServicePrincipalRequest(appID, tags) ==
    [Request("POST", "servicePrincipals") EXCEPT !.body = [appID |-> appID, tags |-> tags]]
CreateServicePrincipal(appID, tags, t) ==
    IF Classified(t) # "nil" THEN Failed(Classified(t)) ELSE Returned(t.value[1])

\* Variant: the body's displayName left unset.
CreateApplicationRequestNoName(displayName) ==
    [Request("POST", "applications") EXCEPT !.body = [displayName |-> <<>>]]

CreateApplicationRequest(displayName) ==
    [Request("POST", "applications") EXCEPT !.body = [displayName |-> displayName]]
CreateApplication(displayName, t) ==
    IF Classified(t) # "nil" THEN Failed(Classified(t)) ELSE Returned(t.value[1])

\* Variant: the empty result set not told apart.
GetServicePrincipalNoEmptyCheck(displayName, t) ==
    IF Classified(t) # "nil" THEN Failed(Classified(t))
    ELSE IF Len(t.value) = 0 THEN Returned(Nil)
    ELSE Returned(t.value[1])

GetServicePrincipalRequest(displayName) ==
    [Request("GET", "servicePrincipals") EXCEPT !.filter = getDisplayNameFilter(displayName)]
GetServicePrincipal(displayName, t) ==
    IF Classified(t) # "nil" THEN Failed(Classified(t))
    ELSE IF Len(t.value) = 0 THEN Failed("NotFound")
    ELSE Returned(t.value[1])

\* Variant: the last element of the result set instead of the first.
GetApplicationLastElement(displayName, t) ==
    IF Classified(t) # "nil" THEN Failed(Classified(t))
    ELSE IF Len(t.value) = 0 THEN Failed("NotFound")
    ELSE Returned(t.value[Len(t.value)])

GetApplicationRequest(displayName) ==
    [Request("GET", "applications") EXCEPT !.filter = getDisplayNameFilter(displayName)]
GetApplication(displayName, t) ==
    IF Classified(t) # "nil" THEN Failed(Classified(t))
    ELSE IF Len(t.value) = 0 THEN Failed("NotFound")
    ELSE Returned(t.value[1])

\* The SDK's Delete returns an error and nothing else: no response reaches the
\* operation, which returns that error.
DeleteServicePrincipalRequest(objectID) ==
    [Request("DELETE", "servicePrincipals") EXCEPT !.objectID = objectID]
DeleteServicePrincipal(objectID, t) ==
    IF t.err # "nil" THEN Failed(OnTransportError(t.err).err) ELSE Failed("nil")

DeleteApplicationRequest(objectID) ==
    [Request("DELETE", "applications") EXCEPT !.objectID = objectID]
DeleteApplication(objectID, t) ==
    IF t.err # "nil" THEN Failed(OnTransportError(t.err).err) ELSE Failed("nil")

AddFederatedCredentialRequest(objectID, fic) ==
    [Request("POST", "federatedIdentityCredentials") EXCEPT !.objectID = objectID, !.body = fic]
AddFederatedCredential(objectID, fic, t) == Failed(Classified(t))

RECURSIVE FirstWithIssuer(_, _, _)
\* `for _, fic := range resp.GetValue() { if *fic.GetIssuer() == issuer { return fic, nil } }`
FirstWithIssuer(value, issuer, i) ==
    IF i > Len(value) THEN Failed("FederatedCredentialNotFound")
    ELSE IF value[i].issuer = issuer THEN Returned(value[i])
    ELSE FirstWithIssuer(value, issuer, i + 1)

\* Variant: the issuer not compared.
GetFederatedCredentialAnyIssuer(objectID, issuer, subject, t) ==
    IF Classified(t) # "nil" THEN Failed(Classified(t))
    ELSE IF Len(t.value) = 0 THEN Failed("FederatedCredentialNotFound")
    ELSE Returned(t.value[1])

GetFederatedCredentialRequest(objectID, issuer, subject) ==
    [Request("GET", "federatedIdentityCredentials") EXCEPT
        !.objectID = objectID, !.filter = getSubjectFilter(subject)]
GetFederatedCredential(objectID, issuer, subject, t) ==
    IF Classified(t) # "nil" THEN Failed(Classified(t))
    ELSE FirstWithIssuer(t.value, issuer, 1)

DeleteFederatedCredentialRequest(objectID, federatedCredentialID) ==
    [Request("DELETE", "federatedIdentityCredentials") EXCEPT
        !.objectID = objectID, !.federatedCredentialID = federatedCredentialID]
DeleteFederatedCredential(objectID, federatedCredentialID, t) ==
    IF t.err # "nil" THEN Failed(OnTransportError(t.err).err) ELSE Failed("nil")

\* The invoked operation's request and return value.
RequestOf(i) ==
    CASE i.op = "CreateServicePrincipal" -> CreateServicePrincipalRequest(i.appID, i.tags)
      [] i.op = "CreateApplication" -> CreateApplicationRequest(i.displayName)
      [] i.op = "GetServicePrincipal" -> GetServicePrincipalRequest(i.displayName)
      [] i.op = "GetApplication" -> GetApplicationRequest(i.displayName)
      [] i.op = "DeleteServicePrincipal" -> DeleteServicePrincipalRequest(i.objectID)
      [] i.op = "DeleteApplication" -> DeleteApplicationRequest(i.objectID)
      [] i.op = "AddFederatedCredential" -> AddFederatedCredentialRequest(i.objectID, i.fic)
      [] i.op = "GetFederatedCredential" ->
            GetFederatedCredentialRequest(i.objectID, i.issuer, i.subject)
      [] i.op = "DeleteFederatedCredential" ->
            DeleteFederatedCredentialRequest(i.objectID, i.federatedCredentialID)

ReturnOf(i, t) ==
    CASE i.op = "CreateServicePrincipal" -> CreateServicePrincipal(i.appID, i.tags, t)
      [] i.op = "CreateApplication" -> CreateApplication(i.displayName, t)
      [] i.op = "GetServicePrincipal" -> GetServicePrincipal(i.displayName, t)
      [] i.op = "GetApplication" -> GetApplication(i.displayName, t)
      [] i.op = "DeleteServicePrincipal" -> DeleteServicePrincipal(i.objectID, t)
      [] i.op = "DeleteApplication" -> DeleteApplication(i.objectID, t)
      [] i.op = "AddFederatedCredential" -> AddFederatedCredential(i.objectID, i.fic, t)
      [] i.op = "GetFederatedCredential" ->
            GetFederatedCredential(i.objectID, i.issuer, i.subject, t)
      [] i.op = "DeleteFederatedCredential" ->
            DeleteFederatedCredential(i.objectID, i.federatedCredentialID, t)

\* ------------------------------------------------------------------ calls
Init ==
    /\ dir = EmptyDir
    /\ pc = [c \in Callers |-> "idle"]
    /\ inv = [c \in Callers |-> NoInv]
    /\ ctx = [c \in Callers |-> "live"]
    /\ wire = [c \in Callers |-> NoWire]
    /\ ret = [c \in Callers |-> NoRet]
    /\ fresh = NoAdd
    /\ prog = [c \in Callers |-> NoProg]
    /\ lock = "none"
    /\ fin = <<>>
    /\ fout = NoFilter

\* Caller c enters operation i: the operation builds its request and is inside
\* its transport call.
Start(c, i) ==
    /\ pc' = [pc EXCEPT ![c] = "inflight"]
    /\ inv' = [inv EXCEPT ![c] = i]
    /\ ctx' = [ctx EXCEPT ![c] = "live"]
    /\ wire' = [wire EXCEPT ![c] = [NoWire EXCEPT !.calls = 1]]
    /\ ret' = [ret EXCEPT ![c] = NoRet]
    /\ fresh' = IF /\ fresh.caller = c
                   /\ i # [op |-> "GetFederatedCredential", objectID |-> fresh.objectID,
                           issuer |-> fresh.issuer, subject |-> fresh.subject]
                THEN NoAdd ELSE fresh
    /\ UNCHANGED <<dir, fin, fout>>

Invoke(c, i) == pc[c] = "idle" /\ Start(c, i) /\ UNCHANGED <<prog, lock>>

CallCreateServicePrincipal(c) ==
    \E appID \in AppIDs, tags \in TagSets :
        Invoke(c, [op |-> "CreateServicePrincipal", appID |-> appID, tags |-> tags])
CallCreateApplication(c) ==
    \E displayName \in Names :
        Invoke(c, [op |-> "CreateApplication", displayName |-> displayName])
CallGetServicePrincipal(c) ==
    \E displayName \in Names :
        Invoke(c, [op |-> "GetServicePrincipal", displayName |-> displayName])
CallGetApplication(c) ==
    \E displayName \in Names :
        Invoke(c, [op |-> "GetApplication", displayName |-> displayName])
CallDeleteServicePrincipal(c) ==
    \E objectID \in ObjectIDs :
        Invoke(c, [op |-> "DeleteServicePrincipal", objectID |-> objectID])
CallDeleteApplication(c) ==
    \E objectID \in ObjectIDs :
        Invoke(c, [op |-> "DeleteApplication", objectID |-> objectID])
CallAddFederatedCredential(c) ==
    \E objectID \in Targets, issuer \in Issuers, subject \in Names :
        Invoke(c, [op |-> "AddFederatedCredential", objectID |-> objectID,
                   fic |-> [issuer |-> issuer, subject |-> subject]])
CallGetFederatedCredential(c) ==
    \E objectID \in Targets, issuer \in Issuers, subject \in Names :
        Invoke(c, [op |-> "GetFederatedCredential", objectID |-> objectID,
                   issuer |-> issuer, subject |-> subject])
CallDeleteFederatedCredential(c) ==
    \E objectID \in Targets, federatedCredentialID \in ObjectIDs :
        Invoke(c, [op |-> "DeleteFederatedCredential", objectID |-> objectID,
                   federatedCredentialID |-> federatedCredentialID])

\* The caller cancels the context of its call while the transport call is in
\* flight.
Cancel(c) ==
    /\ pc[c] = "inflight"
    /\ ctx[c] = "live"
    /\ ctx' = [ctx EXCEPT ![c] = "cancelled"]
    /\ UNCHANGED <<dir, pc, inv, wire, ret, fresh, prog, lock, fin, fout>>

\* The caller has the operation's return value and is free to call again.
Taken(c) ==
    /\ pc[c] = "returned"
    /\ prog[c] = NoProg
    /\ pc' = [pc EXCEPT ![c] = "idle"]
    /\ inv' = [inv EXCEPT ![c] = NoInv]
    /\ ctx' = [ctx EXCEPT ![c] = "live"]
    /\ wire' = [wire EXCEPT ![c] = NoWire]
    /\ ret' = [ret EXCEPT ![c] = NoRet]
    /\ UNCHANGED <<dir, fresh, prog, lock, fin, fout>>

\* The credential a completed call leaves as the one just added: a successful
\* AddFederatedCredential records it, the same caller's lookup of that issuer
\* and subject keeps it, and any other completed call is an intervening one.
FreshAfter(c, r, t) ==
    IF inv[c].op = "AddFederatedCredential" /\ r.err = "nil"
    THEN [caller |-> c, objectID |-> inv[c].objectID, issuer |-> inv[c].fic.issuer,
          subject |-> inv[c].fic.subject, created |-> CHOOSE x \in t.added : TRUE]
    ELSE IF /\ inv[c].op = "GetFederatedCredential"
            /\ fresh.caller = c
            /\ inv[c].objectID = fresh.objectID
            /\ inv[c].issuer = fresh.issuer
            /\ inv[c].subject = fresh.subject
    THEN fresh
    ELSE NoAdd

\* The transport call of c's operation ends and the operation runs on from it
\* to its return.  No operation makes its call again: OnTransportError says
\* so for each of them.
Complete(c) ==
    /\ pc[c] = "inflight"
    /\ \E o \in TransportOutcomes(dir, RequestOf(inv[c]), ctx[c]) :
        LET t == [calls |-> wire[c].calls, err |-> o.err,
                  additionalData |-> o.additionalData, value |-> o.value,
                  added |-> wire[c].added \cup o.added,
                  removed |-> wire[c].removed \cup o.removed]
            r == ReturnOf(inv[c], t)
        IN  /\ dir' = o.dir
            /\ IF o.err # "nil" /\ OnTransportError(o.err).again
               THEN /\ wire' = [wire EXCEPT ![c] = [t EXCEPT !.calls = @ + 1]]
                    /\ fresh' = NoAdd
                    /\ UNCHANGED <<pc, ret>>
               ELSE /\ wire' = [wire EXCEPT ![c] = t]
                    /\ pc' = [pc EXCEPT ![c] = "returned"]
                    /\ ret' = [ret EXCEPT ![c] = r]
                    /\ fresh' = FreshAfter(c, r, t)
    /\ UNCHANGED <<inv, ctx, prog, lock, fin, fout>>

\* The operations share no state of their own, so one caller making one call
\* after another reaches every directory state and every way a call can end;
\* calls that overlap are in SpecRace.
Solo == {"c1"}

Next ==
    \E c \in Solo :
        \/ CallCreateServicePrincipal(c)
        \/ CallCreateApplication(c)
        \/ CallGetServicePrincipal(c)
        \/ CallGetApplication(c)
        \/ CallDeleteServicePrincipal(c)
        \/ CallDeleteApplication(c)
        \/ CallAddFederatedCredential(c)
        \/ CallGetFederatedCredential(c)
        \/ CallDeleteFederatedCredential(c)
        \/ Cancel(c)
        \/ Complete(c)
        \/ Taken(c)

Spec == Init /\ [][Next]_vars

\* ------------------------------------------------------------------ lookup before create
\* The callers' protocol for provisioning: look the object up and create it
\* exactly when the lookup reports that it is not there.
Programs ==
    [kind : {"app"}, displayName : Names]
      \cup [kind : {"sp"}, displayName : Names, appID : AppIDs, tags : {<<>>}]
      \cup [kind : {"fic"}, objectID : Targets, issuer : Issuers, subject : Names]

LookupOf(p) ==
    CASE p.kind = "app" -> [op |-> "GetApplication", displayName |-> p.displayName]
      [] p.kind = "sp" -> [op |-> "GetServicePrincipal", displayName |-> p.displayName]
      [] p.kind = "fic" -> [op |-> "GetFederatedCredential", objectID |-> p.objectID,
                            issuer |-> p.issuer, subject |-> p.subject]

CreateOf(p) ==
    CASE p.kind = "app" -> [op |-> "CreateApplication", displayName |-> p.displayName]
      [] p.kind = "sp" -> [op |-> "CreateServicePrincipal", appID |-> p.appID, tags |-> p.tags]
      [] p.kind = "fic" -> [op |-> "AddFederatedCredential", objectID |-> p.objectID,
                            fic |-> [issuer |-> p.issuer, subject |-> p.subject]]

IsLookup(c) ==
    inv[c].op \in {"GetApplication", "GetServicePrincipal", "GetFederatedCredential"}
NotThere(c) ==
    /\ pc[c] = "returned"
    /\ IsLookup(c)
    /\ ret[c].err \in {"NotFound", "FederatedCredentialNotFound"}

\* c starts a sequence with the lookup; where the callers use a lock, it takes it.
EnsureLookup(c) ==
    /\ prog[c] = NoProg
    /\ pc[c] = "idle"
    /\ lock \in {"none", "free"}
    /\ \E p \in Programs :
        /\ prog' = [prog EXCEPT ![c] = p]
        /\ Start(c, LookupOf(p))
    /\ lock' = IF lock = "none" THEN "none" ELSE c

\* The lookup reported that the object is not there: create it.
EnsureCreate(c) ==
    /\ prog[c] # NoProg
    /\ NotThere(c)
    /\ Start(c, CreateOf(prog[c]))
    /\ UNCHANGED <<prog, lock>>

\* The sequence is over: the lookup found the object or failed, or the create
\* returned.  The lock, if held, is released.
EnsureDone(c) ==
    /\ prog[c] # NoProg
    /\ pc[c] = "returned"
    /\ ~NotThere(c)
    /\ prog' = [prog EXCEPT ![c] = NoProg]
    /\ pc' = [pc EXCEPT ![c] = "idle"]
    /\ inv' = [inv EXCEPT ![c] = NoInv]
    /\ wire' = [wire EXCEPT ![c] = NoWire]
    /\ ctx' = [ctx EXCEPT ![c] = "live"]
    /\ ret' = [ret EXCEPT ![c] = NoRet]
    /\ lock' = IF lock = c THEN "free" ELSE lock
    /\ UNCHANGED <<dir, fresh, fin, fout>>

NextEnsure ==
    \E c \in Callers :
        \/ EnsureLookup(c)
        \/ EnsureCreate(c)
        \/ EnsureDone(c)
        \/ Cancel(c)
        \/ Complete(c)

\* A directory that is empty or holds one application, and no call made.
InitSeeded ==
    /\ dir \in {EmptyDir}
                \cup {[EmptyDir EXCEPT !.apps = <<Application(1, n)>>, !.nextID = 2] : n \in Names}
    /\ pc = [c \in Callers |-> "idle"]
    /\ inv = [c \in Callers |-> NoInv]
    /\ ctx = [c \in Callers |-> "live"]
    /\ wire = [c \in Callers |-> NoWire]
    /\ ret = [c \in Callers |-> NoRet]
    /\ fresh = NoAdd
    /\ prog = [c \in Callers |-> NoProg]
    /\ lock = "none"
    /\ fin = <<>>
    /\ fout = NoFilter

\* Two callers that each run one sequence, with no lock between them.
NextRace ==
    \E c \in Callers :
        \/ EnsureLookup(c)
        \/ EnsureCreate(c)
        \/ Cancel(c)
        \/ Complete(c)

SpecRace == InitSeeded /\ [][NextRace]_vars

\* Callers that hold an external lock for the length of a sequence.
InitSerial ==
    /\ dir = EmptyDir
    /\ pc = [c \in Callers |-> "idle"]
    /\ inv = [c \in Callers |-> NoInv]
    /\ ctx = [c \in Callers |-> "live"]
    /\ wire = [c \in Callers |-> NoWire]
    /\ ret = [c \in Callers |-> NoRet]
    /\ fresh = NoAdd
    /\ prog = [c \in Callers |-> NoProg]
    /\ lock = "free"
    /\ fin = <<>>
    /\ fout = NoFilter

SpecSerial == InitSerial /\ [][NextEnsure]_vars

\* ------------------------------------------------------------------ filter builders alone
InitFilter ==
    /\ dir = EmptyDir
    /\ pc = [c \in Callers |-> "idle"]
    /\ inv = [c \in Callers |-> NoInv]
    /\ ctx = [c \in Callers |-> "live"]
    /\ wire = [c \in Callers |-> NoWire]
    /\ ret = [c \in Callers |-> NoRet]
    /\ fresh = NoAdd
    /\ prog = [c \in Callers |-> NoProg]
    /\ lock = "none"
    /\ fin \in Values
    /\ fout = NoFilter

BuildDisplayNameFilter ==
    /\ fout = NoFilter
    /\ fout' = [builder |-> "getDisplayNameFilter", filter |-> getDisplayNameFilter(fin)]
    /\ UNCHANGED <<dir, pc, inv, ctx, wire, ret, fresh, prog, lock, fin>>

BuildSubjectFilter ==
    /\ fout = NoFilter
    /\ fout' = [builder |-> "getSubjectFilter", filter |-> getSubjectFilter(fin)]
    /\ UNCHANGED <<dir, pc, inv, ctx, wire, ret, fresh, prog, lock, fin>>

NextFilter == BuildDisplayNameFilter \/ BuildSubjectFilter

SpecFilter == InitFilter /\ [][NextFilter]_vars

\* ------------------------------------------------------------------ claims
\* A call that has returned after a transport call that succeeded.
Answered(c) == pc[c] = "returned" /\ wire[c].err = "nil"
\* ... and whose envelope carried no service error.
AnsweredClean(c) == Answered(c) /\ wire[c].additionalData = "Clean"
LookupsByName == {"GetApplication", "GetServicePrincipal"}

\* C1: whenever the transport call succeeds and the response's envelope
\* carries a well-formed structured error, every operation, the three Delete
\* operations included, returns DirectoryServiceError with no object.
C1_ServiceErrorAlwaysReturned ==
    \A c \in Callers :
        (Answered(c) /\ wire[c].additionalData = "ServiceError")
            => ret[c] = Failed("DirectoryServiceError")

\* C2: a credential lookup answered with no service error returns an element
\* only if its subject and its issuer are both the requested ones, and
\* FederatedCredentialNotFound with no object when no returned element matches both.
C2_BothFieldsMatch ==
    \A c \in Callers :
        (AnsweredClean(c) /\ inv[c].op = "GetFederatedCredential") =>
            LET both == {i \in DOMAIN wire[c].value :
                            /\ wire[c].value[i].subject = inv[c].subject
                            /\ wire[c].value[i].issuer = inv[c].issuer}
            IN  /\ ret[c].err = "nil" =>
                     /\ ret[c].obj.subject = inv[c].subject
                     /\ ret[c].obj.issuer = inv[c].issuer
                /\ both = {} => ret[c] = Failed("FederatedCredentialNotFound")

\* C4: a lookup by display name answered with no service error and an empty
\* result set returns NotFound and no object, never a nil object with a nil error.
C4_EmptyResultIsNotFound ==
    \A c \in Callers :
        (AnsweredClean(c) /\ inv[c].op \in LookupsByName /\ Len(wire[c].value) = 0)
            => ret[c] = Failed("NotFound")

C4_Witness ==
    \E c \in Callers :
        /\ AnsweredClean(c)
        /\ inv[c].op = "GetServicePrincipal"
        /\ inv[c].displayName = <<"a">>
        /\ Len(wire[c].value) = 0
        /\ Len(dir.sps) > 0
        /\ ret[c] = Failed("NotFound")

\* C8: a lookup by display name answered with no service error and a non-empty
\* result set returns the first element of that set, in the backend's order,
\* with a nil error, however many elements there are.
C8_FirstElementReturned ==
    \A c \in Callers :
        (AnsweredClean(c) /\ inv[c].op \in LookupsByName /\ Len(wire[c].value) > 0)
            => ret[c] = Returned(wire[c].value[1])

C8_Witness ==
    \E c \in Callers :
        /\ AnsweredClean(c)
        /\ inv[c].op = "GetApplication"
        /\ Len(wire[c].value) = 2
        /\ wire[c].value[1].objectID # wire[c].value[2].objectID
        /\ wire[c].value[1].displayName = wire[c].value[2].displayName
        /\ ret[c] = Returned(wire[c].value[1])

\* C3: for every value, each filter builder's output parses as one
\* '<field> eq' comparison whose string literal reads back as exactly that value.
C3_FilterReadsBackValue ==
    fout.builder # "none" =>
        LET f == ParseFilter(fout.filter)
        IN  /\ f.ok
            /\ f.value = fin
            /\ f.field = IF fout.builder = "getDisplayNameFilter" THEN "displayName"
                         ELSE "subject"

\* The lookup of the credential its caller has just added, with no call
\* completed in between, answered with no service error.
ImmediateLookup(c) ==
    /\ AnsweredClean(c)
    /\ inv[c].op = "GetFederatedCredential"
    /\ fresh.caller = c

C10_OneCallPerInvocation ==
    \A c \in Callers :
        /\ pc[c] # "idle" => wire[c].calls = 1
        /\ pc[c] = "returned" =>
            /\ wire[c].err # "nil" => ret[c] = Failed(wire[c].err)
            /\ Cardinality(wire[c].added) <= 1
            /\ inv[c].op \in {"CreateApplication", "CreateServicePrincipal",
                              "AddFederatedCredential"} => wire[c].removed = {}
            /\ inv[c].op \in {"DeleteApplication", "DeleteServicePrincipal"} =>
                    (wire[c].added = {} /\ wire[c].removed \subseteq {inv[c].objectID})
            /\ inv[c].op = "DeleteFederatedCredential" =>
                    (wire[c].added = {} /\ wire[c].removed \subseteq {inv[c].federatedCredentialID})
            /\ inv[c].op \in LookupsByName \cup {"GetFederatedCredential"} =>
                    (wire[c].added = {} /\ wire[c].removed = {})

C10_Witness ==
    \E c \in Callers :
        /\ pc[c] = "returned"
        /\ inv[c].op = "CreateServicePrincipal"
        /\ wire[c].err = "TransportError"
        /\ wire[c].added # {}
        /\ wire[c].calls = 1
        /\ ret[c] = Failed("TransportError")

\* One call of any operation, on a directory that is empty or holds one
\* application.  The transport call comes back: the SDK's HTTP client returns
\* when the response arrives, the connection fails or the context is cancelled.
NextOneCall ==
    \E c \in Solo :
        \/ CallCreateServicePrincipal(c)
        \/ CallCreateApplication(c)
        \/ CallGetServicePrincipal(c)
        \/ CallGetApplication(c)
        \/ CallDeleteServicePrincipal(c)
        \/ CallDeleteApplication(c)
        \/ CallAddFederatedCredential(c)
        \/ CallGetFederatedCredential(c)
        \/ CallDeleteFederatedCredential(c)
        \/ Cancel(c)
        \/ Complete(c)

FairSpec == InitSeeded /\ [][NextOneCall]_vars /\ \A c \in Solo : WF_vars(Complete(c))

\* C7: a call whose context is cancelled while its transport call is in
\* flight returns, and what it returns is the cancellation error and no
\* object: never NotFound, FederatedCredentialNotFound or a result.
C7_CancelledCallReturnsCancellation ==
    /\ [](\A c \in Callers :
            (pc[c] = "returned" /\ ctx[c] = "cancelled") => ret[c] = Failed("Canceled"))
    /\ \A c \in Callers :
            (pc[c] = "inflight" /\ ctx[c] = "cancelled") ~> (pc[c] = "returned")

C7_Witness ==
    \E c \in Callers :
        /\ pc[c] = "returned"
        /\ ctx[c] = "cancelled"
        /\ inv[c].op = "GetFederatedCredential"
        /\ wire[c].err = "Canceled"
        /\ ret[c] = Failed("Canceled")

\* The objects of the kind a sequence provisions that carry its key.
Provisioned(p) ==
    CASE p.kind = "app" ->
            {o.objectID : o \in {dir.apps[i] : i \in {j \in DOMAIN dir.apps :
                dir.apps[j].displayName = p.displayName}}}
      [] p.kind = "sp" ->
            {o.objectID : o \in {dir.sps[i] : i \in {j \in DOMAIN dir.sps :
                dir.sps[j].appID = p.appID}}}
      [] p.kind = "fic" ->
            {o.objectID : o \in {dir.fics[i] : i \in {j \in DOMAIN dir.fics :
                /\ dir.fics[j].app = p.objectID
                /\ dir.fics[j].issuer = p.issuer
                /\ dir.fics[j].subject = p.subject}}}

\* Caller c's sequence has reached its create, and the create has succeeded.
Created(c) ==
    /\ prog[c] # NoProg
    /\ pc[c] = "returned"
    /\ inv[c] = CreateOf(prog[c])
    /\ ret[c].err = "nil"

\* C6: no lock is taken and a create is not idempotent: when two callers run
\* the same lookup-then-create sequence and both creates succeed, each has
\* added one object, the two have different objectIDs, and the directory
\* holds both under the same key (displayName, appID, or issuer+subject).
C6_RacingCreatesBothAdd ==
    \A c, d \in Callers :
        (c # d /\ prog[c] = prog[d] /\ Created(c) /\ Created(d)) =>
            /\ Cardinality(wire[c].added) = 1
            /\ Cardinality(wire[d].added) = 1
            /\ wire[c].added \cap wire[d].added = {}
            /\ wire[c].added \cup wire[d].added \subseteq Provisioned(prog[c])

C6_Witness ==
    /\ lock = "none"
    /\ prog["c1"] = [kind |-> "app", displayName |-> <<"a">>]
    /\ prog["c2"] = prog["c1"]
    /\ Created("c1")
    /\ Created("c2")
    /\ ret["c1"].obj.objectID # ret["c2"].obj.objectID
    /\ ret["c1"].obj.displayName = <<"a">>
    /\ ret["c2"].obj.displayName = <<"a">>
    /\ Cardinality(Provisioned(prog["c1"])) = 2

\* C9: with every application created through a lookup-then-create sequence
\* and the sequences serialized, the directory never holds two applications
\* with the same displayName.
C9_AtMostOneApplicationPerName ==
    \A n \in Names :
        Cardinality({i \in DOMAIN dir.apps : dir.apps[i].displayName = n}) <= 1

====
